---- MODULE Spec2Model ----
(***************************************************************************)
(* The IRC relay of src/main.go: the per-channel conversation context kept *)
(* by respond, the PRIVMSG handler that calls it, and sanitizeResponse.    *)
(*                                                                         *)
(* Go strings are byte strings: a string is modelled as a sequence of      *)
(* bytes, an ASCII byte written as the one-character string of its         *)
(* character and a byte >= 0x80 as its two hex digits ("C3", "A9").        *)
(***************************************************************************)
EXTENDS Integers, Sequences, FiniteSets, TLC

(***************************************************************************)
(* Program constants (src/main.go:18-21) and literals.                     *)
(***************************************************************************)
maxTokens == 100
maxIRCMessageLength == 420
maxContextMessages == 20
shortAnswerHint ==
    << " ", "(", "l", "i", "m", "i", "t", " ", "a", "n", "s", "w", "e", "r",
       " ", "t", "o", " ", "2", "0", "0", " ", "c", "h", "a", "r", "a", "c",
       "t", "e", "r", "s", ")" >>
\* 2*60*60, the age in seconds above which a context message is removed
expirySeconds == 2 * 60 * 60
\* "Claude had a brainfart: ", the prefix of the failure message
brainfartPrefix ==
    << "C", "l", "a", "u", "d", "e", " ", "h", "a", "d", " ", "a", " ",
       "b", "r", "a", "i", "n", "f", "a", "r", "t", ":", " " >>

(***************************************************************************)
(* Bytes and runes.  The model's alphabet holds ASCII letters and          *)
(* punctuation, ASCII white space, and the UTF-8 encodings of U+00E9       *)
(* (C3 A9, a letter) and U+00A0 (C2 A0, white space for unicode.IsSpace).  *)
(***************************************************************************)
asciiSpace == {" ", "\t", "\n", "\r", "\f"}
leadBytes == {"C2", "C3"}
contBytes == {"A0", "A9"}

\* utf8.DecodeRuneInString(s[i:]) : the width of the rune starting at byte i.
\* A lead byte followed by a continuation byte is a two-byte rune; any other
\* byte >= 0x80 decodes to RuneError of width 1.
RuneWidth(s, i) ==
    IF s[i] \in leadBytes /\ i + 1 <= Len(s) /\ s[i + 1] \in contBytes
    THEN 2 ELSE 1

\* unicode.IsSpace of the rune starting at byte i
IsSpaceAt(s, i) ==
    \/ s[i] \in asciiSpace
    \/ RuneWidth(s, i) = 2 /\ s[i] = "C2" /\ s[i + 1] = "A0"

\* whether the rune ENDING at byte j (j >= 1) is white space, and its width,
\* as utf8.DecodeLastRuneInString finds it
LastRuneWidth(s, j) ==
    IF j >= 2 /\ s[j] \in contBytes /\ s[j - 1] \in leadBytes THEN 2 ELSE 1

IsSpaceEndingAt(s, j) ==
    \/ s[j] \in asciiSpace
    \/ LastRuneWidth(s, j) = 2 /\ s[j - 1] = "C2" /\ s[j] = "A0"

(***************************************************************************)
(* strings.Fields: the maximal runs of non-space runes, in order.  A byte  *)
(* belongs to a white-space rune when it is an ASCII space or one of the   *)
(* two bytes of C2 A0; a field starts at a byte that does not and whose    *)
(* predecessor does (or is missing), and ends likewise.                    *)
(***************************************************************************)
IsSpaceByte(s, i) ==
    \/ s[i] \in asciiSpace
    \/ s[i] = "C2" /\ i < Len(s) /\ s[i + 1] = "A0"
    \/ s[i] = "A0" /\ i > 1 /\ s[i - 1] = "C2"

FieldStarts(s) ==
    {i \in 1..Len(s) : ~IsSpaceByte(s, i) /\ (i = 1 \/ IsSpaceByte(s, i - 1))}

FieldEnds(s) ==
    {i \in 1..Len(s) :
        ~IsSpaceByte(s, i) /\ (i = Len(s) \/ IsSpaceByte(s, i + 1))}

\* the k-th smallest element of a set of numbers
Nth(S, k) == CHOOSE x \in S : Cardinality({y \in S : y <= x}) = k

Fields(s) ==
    LET starts == FieldStarts(s)
        ends   == FieldEnds(s)
    IN  [k \in 1..Cardinality(starts) |->
            SubSeq(s, Nth(starts, k), Nth(ends, k))]

\* strings.Join(elems, sep)
RECURSIVE JoinFrom(_, _, _)
JoinFrom(elems, sep, k) ==
    IF k > Len(elems) THEN <<>>
    ELSE IF k = Len(elems) THEN elems[k]
    ELSE elems[k] \o sep \o JoinFrom(elems, sep, k + 1)

Join(elems, sep) == JoinFrom(elems, sep, 1)

\* strings.TrimSpace: drop leading and trailing white-space runes
RECURSIVE TrimLeftSpace(_)
TrimLeftSpace(s) ==
    IF s = <<>> THEN s
    ELSE IF IsSpaceAt(s, 1)
         THEN TrimLeftSpace(SubSeq(s, 1 + RuneWidth(s, 1), Len(s)))
         ELSE s

RECURSIVE TrimRightSpace(_)
TrimRightSpace(s) ==
    IF s = <<>> THEN s
    ELSE IF IsSpaceEndingAt(s, Len(s))
         THEN TrimRightSpace(SubSeq(s, 1, Len(s) - LastRuneWidth(s, Len(s))))
         ELSE s

TrimSpace(s) == TrimRightSpace(TrimLeftSpace(s))

\* (mutant) every line counts as addressed
HasAnyPrefix(s, p) == TRUE

\* strings.HasPrefix and strings.TrimPrefix
HasPrefix(s, p) == Len(s) >= Len(p) /\ SubSeq(s, 1, Len(p)) = p

TrimPrefix(s, p) == IF HasPrefix(s, p) THEN SubSeq(s, Len(p) + 1, Len(s)) ELSE s

\* (mutant) no limit on the length
sanitizeNoLimit(content) == TrimSpace(Join(Fields(content), <<" ">>))

(***************************************************************************)
(* sanitizeResponse (src/main.go:251-264).  len and the slice expression   *)
(* content[:maxIRCMessageLength] count bytes.                              *)
(***************************************************************************)
sanitizeResponse(content) ==
    LET joined  == Join(Fields(content), <<" ">>)
        trimmed == TrimSpace(joined)
    IN  IF Len(trimmed) > maxIRCMessageLength
        THEN SubSeq(trimmed, 1, maxIRCMessageLength)
        ELSE trimmed

(***************************************************************************)
(* The environment of the model.                                           *)
(*                                                                         *)
(* The IRC library calls the PRIVMSG handler on goroutines of its own and  *)
(* main.go takes no lock, so a handler invocation is a process (a worker)  *)
(* and several may be in flight at once.                                   *)
(***************************************************************************)
NumWorkers == 2
Workers == 1..NumWorkers
Channels == {"#a", "#b"}
NoChannel == ""

\* conn.Me().Nick and the PRIVMSG texts the channels deliver
Nick == << "b", "o", "t" >>
LineHi == << "b", "o", "t", ":", " ", "h", "i" >>
LineEmpty == << "b", "o", "t", ":", " " >>
LineOther == << "h", "i", " ", "b", "o", "t" >>

\* n copies of the byte b
Rep(b, n) == [i \in 1..n |-> b]

\* texts the completion service answers with: one with runs of white space,
\* one longer than an IRC message
RawShort == << " ", " ", "a", "\n", "\n", "b", " ", " ", " ", "c", " ", " " >>
RawLong == Rep("x", maxIRCMessageLength - 1) \o << " ", "y", "z" >>

\* err.Error() of a failed completion call
ErrShort == << "e", "r", "r" >>
ErrLong == Rep("e", maxIRCMessageLength)

\* the clock advances by a second or by the expiry window
TickSteps == {1, expirySeconds}

(***************************************************************************)
(* Three environments drive the same actions.                              *)
(*   Spec      a few lines on two channels, the clock running: every       *)
(*             interleaving of two handler invocations                     *)
(*   TextSpec  one channel, every kind of line, long answers and errors    *)
(*   LongSpec  one channel, its lines handled one at a time and within the *)
(*             expiry window, enough of them for the context to reach its  *)
(*             maximum                                                     *)
(* and SanSpec applies sanitizeResponse on its own.                        *)
(***************************************************************************)
Lines == {LineHi, LineOther}
RawResponses == {RawShort}
Errors == {ErrShort}
MaxLines == 3
MaxTicks == 2

TextChannels == {"#a"}
TextLines == {LineHi, LineEmpty, LineOther}
TextRawResponses == {RawShort, RawLong}
TextErrors == {ErrShort, ErrLong}
MaxTextLines == 2

LongWorkers == {1}
LongChannels == {"#a"}
LongLines == {LineHi}
MaxLongLines == 22
MaxLongErrs == 2

\* sanitizeResponse's inputs: a run of letters of a length around the limit,
\* then white space or a two-byte rune, then a tail
MaxOver == 2
SanPads == {0, 1} \cup ((maxIRCMessageLength - 3)..(maxIRCMessageLength + MaxOver))
SanLeads == { <<>>, << " " >> }
SanMids == { <<>>, << " " >>, << "\n", "\t" >>, << "C3", "A9" >>, << "C2", "A0" >> }
SanTails == { <<>>, << "b" >>, << "b", " ", " ", "c", "\n" >> }
SanInputs ==
    {lead \o Rep("a", n) \o mid \o tail :
        lead \in SanLeads, n \in SanPads, mid \in SanMids, tail \in SanTails}

(***************************************************************************)
(* State.                                                                  *)
(***************************************************************************)
VARIABLES
    now,                        \* time.Now().Unix()
    ticks,                      \* clock advances so far
    nlines,                     \* PRIVMSG lines dispatched so far
    nerrs,                      \* completion calls that failed or panicked so far
    crashed,                    \* the process died of an unrecovered panic
    contextMessagesPerChannel,  \* the global map: channel -> slice of *ContextMessage
    pc,                         \* per worker: where its handler invocation stands
    channel,                    \* respond's parameters and locals, per worker
    text,
    contextMessages,
    currentTimestamp,
    messages,                   \* the request payload
    response,                   \* what respond returned to the handler
    err,
    sent,                       \* the last conn.Privmsg: <<>> or <<[target, text]>>
    sanIn, sanOnce, sanTwice, sanPc   \* the sanitizer on its own (SanSpec)

ctxVars == << now, ticks, nlines, nerrs, crashed, contextMessagesPerChannel, pc,
              channel, text, contextMessages, currentTimestamp, messages,
              response, err, sent >>
sanVars == << sanIn, sanOnce, sanTwice, sanPc >>
vars == << ctxVars, sanVars >>

(***************************************************************************)
(* ContextMessage (src/main.go:36-49).  Response is <<>> for a nil pointer *)
(* and <<m>> for a pointer to m.  The slices hold pointers: the one object *)
(* a call can still write to is the user message whose address it keeps in *)
(* userMessage, and ref names the worker that holds that address (0 when   *)
(* none does), so that a write through the pointer is seen wherever the    *)
(* object is referenced.                                                   *)
(***************************************************************************)
\* (mutant) a user message is stored without the hint at its end
NewContextMessageNoHint(role, content, ts) ==
    [Timestamp |-> ts, Role |-> role,
     Content |-> IF role = "user"
                 THEN SubSeq(content, 1, Len(content) - Len(shortAnswerHint))
                 ELSE content,
     Response |-> <<>>, ref |-> 0]

NewContextMessage(role, content, ts) ==
    [Timestamp |-> ts, Role |-> role, Content |-> content, Response |-> <<>>,
     ref |-> 0]

\* (mutant) the response is written to the last message of the slice as well
AttachInLast(seq, w, m) ==
    [i \in 1..Len(seq) |->
        IF seq[i].ref = w \/ i = Len(seq)
        THEN [seq[i] EXCEPT !.Response = <<m>>, !.ref = 0]
        ELSE seq[i]]

\* userMessage.Response = m, by worker w, seen through one slice
AttachIn(seq, w, m) ==
    [i \in 1..Len(seq) |->
        IF seq[i].ref = w
        THEN [seq[i] EXCEPT !.Response = <<m>>, !.ref = 0]
        ELSE seq[i]]

\* worker w's userMessage goes out of scope
ReleaseIn(seq, w) ==
    [i \in 1..Len(seq) |->
        IF seq[i].ref = w THEN [seq[i] EXCEPT !.ref = 0] ELSE seq[i]]

\* contextMessagesPerChannel[channel], with ok = false giving the empty slice
Lookup(m, c) == IF c \in DOMAIN m THEN m[c] ELSE <<>>

\* (mutant) one slice for every channel
StoreShared(m, c, seq) == [k \in DOMAIN m \cup {c} |-> seq]

\* contextMessagesPerChannel[channel] = seq
Store(m, c, seq) ==
    [k \in DOMAIN m \cup {c} |-> IF k = c THEN seq ELSE m[k]]

\* append(contextMessages[:i], contextMessages[i+1:]...), i counted from 0
RemoveAt(seq, i) == SubSeq(seq, 1, i) \o SubSeq(seq, i + 2, Len(seq))

\* the loop of lines 183-189, from index i (counted from 0) on: a removal is
\* followed by i-- and the loop's i++, so the same index is looked at again
RECURSIVE RemoveOldFrom(_, _, _)
RemoveOldFrom(seq, i, cur) ==
    IF i >= Len(seq) THEN seq
    ELSE IF cur - seq[i + 1].Timestamp > expirySeconds
         THEN RemoveOldFrom(RemoveAt(seq, i), i, cur)
         ELSE RemoveOldFrom(seq, i + 1, cur)

\* (mutant) one old message empties the slice
RemoveOldAll(seq, cur) ==
    IF \E i \in 1..Len(seq) : cur - seq[i].Timestamp > expirySeconds
    THEN <<>> ELSE seq

RemoveOld(seq, cur) == RemoveOldFrom(seq, 0, cur)

\* (mutants) the slice expression's result is dropped; one entry is dropped
LimitNone(seq) == seq

LimitOne(seq) ==
    IF Len(seq) > maxContextMessages THEN SubSeq(seq, 2, Len(seq)) ELSE seq

\* lines 196-199: contextMessages[2:] when there are more than the maximum
Limit(seq) ==
    IF Len(seq) > maxContextMessages THEN SubSeq(seq, 3, Len(seq)) ELSE seq

\* lines 205-227: one entry per message, and one more for its response
PayloadEntry(m) == [Role |-> m.Role, Text |-> m.Content]

RECURSIVE PrepareFrom(_, _)
PrepareFrom(seq, k) ==
    IF k > Len(seq) THEN <<>>
    ELSE << PayloadEntry(seq[k]) >>
         \o (IF seq[k].Response # <<>>
             THEN << PayloadEntry(seq[k].Response[1]) >> ELSE <<>>)
         \o PrepareFrom(seq, k + 1)

\* (mutant) the responses are left out of the payload
PrepareUsersOnly(seq) == [k \in 1..Len(seq) |-> PayloadEntry(seq[k])]

Prepare(seq) == PrepareFrom(seq, 1)

(***************************************************************************)
(* Initial state: an empty map, every worker idle.                         *)
(***************************************************************************)
SanIdle ==
    /\ sanIn = <<>>
    /\ sanOnce = <<>>
    /\ sanTwice = <<>>
    /\ sanPc = "off"

CtxInit ==
    /\ now = 0
    /\ ticks = 0
    /\ nlines = 0
    /\ nerrs = 0
    /\ crashed = FALSE
    /\ contextMessagesPerChannel = << >>
    /\ pc = [w \in Workers |-> "idle"]
    /\ channel = [w \in Workers |-> NoChannel]
    /\ text = [w \in Workers |-> <<>>]
    /\ contextMessages = [w \in Workers |-> <<>>]
    /\ currentTimestamp = [w \in Workers |-> 0]
    /\ messages = [w \in Workers |-> <<>>]
    /\ response = [w \in Workers |-> <<>>]
    /\ err = [w \in Workers |-> <<>>]
    /\ sent = <<>>

Init == CtxInit /\ SanIdle

(***************************************************************************)
(* handlePrivMsg, lines 148-158: a line that starts with "<nick>:" calls   *)
(* respond with the rest, trimmed; any other line is only logged.          *)
(***************************************************************************)
HandlePrivMsg(w, c, line) ==
    /\ ~crashed
    /\ pc[w] = "idle"
    /\ nlines' = nlines + 1
    /\ IF HasPrefix(line, Nick \o <<":">>)
       THEN /\ pc' = [pc EXCEPT ![w] = "get"]
            /\ channel' = [channel EXCEPT ![w] = c]
            /\ text' = [text EXCEPT ![w] =
                            TrimSpace(TrimPrefix(line, Nick \o <<":">>))]
            /\ response' = [response EXCEPT ![w] = <<>>]
            /\ err' = [err EXCEPT ![w] = <<>>]
       ELSE UNCHANGED << pc, channel, text, response, err >>
    /\ UNCHANGED << now, ticks, nerrs, crashed, contextMessagesPerChannel,
                    contextMessages, currentTimestamp, messages, sent >>
    /\ UNCHANGED sanVars

\* (mutant) respond waits at its entry while any other call is under way
GetLocked(w) ==
    /\ ~crashed
    /\ pc[w] = "get"
    /\ \A v \in Workers \ {w} : pc[v] \notin {"expire", "append", "call"}
    /\ contextMessages' = [contextMessages EXCEPT ![w] =
                               Lookup(contextMessagesPerChannel, channel[w])]
    /\ pc' = [pc EXCEPT ![w] = "expire"]
    /\ UNCHANGED << now, ticks, nlines, nerrs, crashed, contextMessagesPerChannel,
                    channel, text, currentTimestamp, messages, response, err,
                    sent >>
    /\ UNCHANGED sanVars

\* respond, lines 174-177: read the channel's slice from the map
Get(w) ==
    /\ ~crashed
    /\ pc[w] = "get"
    /\ contextMessages' = [contextMessages EXCEPT ![w] =
                               Lookup(contextMessagesPerChannel, channel[w])]
    /\ pc' = [pc EXCEPT ![w] = "expire"]
    /\ UNCHANGED << now, ticks, nlines, nerrs, crashed, contextMessagesPerChannel,
                    channel, text, currentTimestamp, messages, response, err,
                    sent >>
    /\ UNCHANGED sanVars

\* respond, lines 180-189: read the clock, remove the old messages
Expire(w) ==
    /\ ~crashed
    /\ pc[w] = "expire"
    /\ currentTimestamp' = [currentTimestamp EXCEPT ![w] = now]
    /\ contextMessages' = [contextMessages EXCEPT ![w] =
                               RemoveOld(contextMessages[w], now)]
    /\ pc' = [pc EXCEPT ![w] = "append"]
    /\ UNCHANGED << now, ticks, nlines, nerrs, crashed, contextMessagesPerChannel,
                    channel, text, messages, response, err, sent >>
    /\ UNCHANGED sanVars

\* respond, lines 192-229: append the user message, limit, store the slice
\* in the map, build the payload and send the request
AppendStore(w) ==
    /\ ~crashed
    /\ pc[w] = "append"
    /\ LET userMessage ==
               [NewContextMessage("user", text[w] \o shortAnswerHint, now)
                   EXCEPT !.ref = w]
           limited == Limit(Append(contextMessages[w], userMessage))
       IN  /\ contextMessages' = [contextMessages EXCEPT ![w] = limited]
           /\ contextMessagesPerChannel' =
                  Store(contextMessagesPerChannel, channel[w], limited)
           /\ messages' = [messages EXCEPT ![w] = Prepare(limited)]
    /\ pc' = [pc EXCEPT ![w] = "call"]
    /\ UNCHANGED << now, ticks, nlines, nerrs, crashed, channel, text,
                    currentTimestamp, response, err, sent >>
    /\ UNCHANGED sanVars

\* what a finished call leaves of its locals
Return(w, resp, e) ==
    /\ pc' = [pc EXCEPT ![w] = "reply"]
    /\ response' = [response EXCEPT ![w] = resp]
    /\ err' = [err EXCEPT ![w] = e]
    /\ contextMessages' =
           [v \in Workers |->
               IF v = w THEN <<>>
               ELSE IF e = <<>> /\ resp # <<>>
                    THEN AttachIn(contextMessages[v], w,
                             NewContextMessage("assistant", resp[1], now))
                    ELSE ReleaseIn(contextMessages[v], w)]
    /\ contextMessagesPerChannel' =
           [c \in DOMAIN contextMessagesPerChannel |->
               IF e = <<>> /\ resp # <<>>
               THEN AttachIn(contextMessagesPerChannel[c], w,
                        NewContextMessage("assistant", resp[1], now))
               ELSE ReleaseIn(contextMessagesPerChannel[c], w)]
    /\ messages' = [messages EXCEPT ![w] = <<>>]
    /\ currentTimestamp' = currentTimestamp

\* (mutant) a failed CreateMessages is called again
CreateMessagesErrRetry(w, e) ==
    /\ ~crashed
    /\ pc[w] = "call"
    /\ nerrs' = nerrs + 1
    /\ UNCHANGED << now, ticks, nlines, crashed, contextMessagesPerChannel, pc,
                    channel, text, contextMessages, currentTimestamp, messages,
                    response, err, sent >>
    /\ UNCHANGED sanVars

\* respond, lines 229-240: CreateMessages fails; log and return the error
CreateMessagesErr(w, e) ==
    /\ ~crashed
    /\ pc[w] = "call"
    /\ Return(w, <<>>, <<e>>)
    /\ nerrs' = nerrs + 1
    /\ UNCHANGED << now, ticks, nlines, crashed, channel, text, sent >>
    /\ UNCHANGED sanVars

\* respond, lines 229-247: CreateMessages answers with a text; sanitize it,
\* attach it to the user message, return it
CreateMessagesOK(w, raw) ==
    /\ ~crashed
    /\ pc[w] = "call"
    /\ Return(w, << sanitizeResponse(raw) >>, <<>>)
    /\ UNCHANGED << now, ticks, nlines, nerrs, crashed, channel, text, sent >>
    /\ UNCHANGED sanVars

\* respond, line 241: CreateMessages answers without an error and without a
\* content block; resp.Content[0] panics.  The handler's goroutine unwinds
\* and sends nothing; the process dies, unless the caller of the handler
\* recovers the panic, and then the invocation is over.
CreateMessagesNoContent(w) ==
    /\ ~crashed
    /\ pc[w] = "call"
    /\ \E recovered \in BOOLEAN :
           /\ crashed' = ~recovered
           /\ pc' = [pc EXCEPT ![w] = IF recovered THEN "idle" ELSE "panic"]
    /\ contextMessages' =
           [v \in Workers |->
               IF v = w THEN <<>> ELSE ReleaseIn(contextMessages[v], w)]
    /\ contextMessagesPerChannel' =
           [c \in DOMAIN contextMessagesPerChannel |->
               ReleaseIn(contextMessagesPerChannel[c], w)]
    /\ messages' = [messages EXCEPT ![w] = <<>>]
    /\ channel' = [channel EXCEPT ![w] = NoChannel]
    /\ text' = [text EXCEPT ![w] = <<>>]
    /\ currentTimestamp' = [currentTimestamp EXCEPT ![w] = 0]
    /\ nerrs' = nerrs + 1
    /\ UNCHANGED << now, ticks, nlines, response, err, sent >>
    /\ UNCHANGED sanVars

\* handlePrivMsg, lines 160-165: send the reply, or the failure message
Reply(w) ==
    /\ ~crashed
    /\ pc[w] = "reply"
    /\ sent' = << [target |-> channel[w],
                   text |-> IF err[w] # <<>>
                            THEN sanitizeResponse(brainfartPrefix \o err[w][1])
                            ELSE response[w][1]] >>
    /\ pc' = [pc EXCEPT ![w] = "idle"]
    /\ channel' = [channel EXCEPT ![w] = NoChannel]
    /\ text' = [text EXCEPT ![w] = <<>>]
    /\ currentTimestamp' = [currentTimestamp EXCEPT ![w] = 0]
    /\ response' = [response EXCEPT ![w] = <<>>]
    /\ err' = [err EXCEPT ![w] = <<>>]
    /\ UNCHANGED << now, ticks, nlines, nerrs, crashed,
                    contextMessagesPerChannel, contextMessages, messages >>
    /\ UNCHANGED sanVars

\* The map is not safe for concurrent use.  When worker w is about to write
\* it (line 202) while worker v is about to read it (line 174) or to write
\* it, the two accesses may overlap, and the Go runtime then ends the process
\* with a fatal error (concurrent map writes, concurrent map read and map
\* write).
ConcurrentMapAccess(w, v) ==
    /\ ~crashed
    /\ w # v
    /\ pc[w] = "append"
    /\ pc[v] \in {"get", "append"}
    /\ crashed' = TRUE
    /\ UNCHANGED << now, ticks, nlines, nerrs, contextMessagesPerChannel, pc,
                    channel, text, contextMessages, currentTimestamp, messages,
                    response, err, sent >>
    /\ UNCHANGED sanVars

\* Two first messages, for two channels, reach line 202 together: two
\* overlapping inserts of new keys into the map, a data race the runtime
\* does not always catch.  Both calls go on; the map holds both entries, or
\* the two inserts took the same free slot (or each a bucket array of its
\* own, of which the map keeps one) and the map holds one entry, with the
\* key of the one call or the other and the slice of the one or the other.
ConcurrentMapInsert(w, v) ==
    /\ ~crashed
    /\ w < v
    /\ pc[w] = "append" /\ pc[v] = "append"
    /\ channel[w] # channel[v]
    /\ channel[w] \notin DOMAIN contextMessagesPerChannel
    /\ channel[v] \notin DOMAIN contextMessagesPerChannel
    /\ LET limited(u) ==
               Limit(Append(contextMessages[u],
                   [NewContextMessage("user", text[u] \o shortAnswerHint, now)
                       EXCEPT !.ref = u]))
       IN  /\ contextMessages' =
                  [contextMessages EXCEPT ![w] = limited(w), ![v] = limited(v)]
           /\ messages' = [messages EXCEPT ![w] = Prepare(limited(w)),
                                           ![v] = Prepare(limited(v))]
           /\ \/ contextMessagesPerChannel' =
                     Store(Store(contextMessagesPerChannel,
                                 channel[w], limited(w)),
                           channel[v], limited(v))
              \/ \E k \in {channel[w], channel[v]}, u \in {w, v} :
                     contextMessagesPerChannel' =
                         Store(contextMessagesPerChannel, k, limited(u))
    /\ pc' = [pc EXCEPT ![w] = "call", ![v] = "call"]
    /\ UNCHANGED << now, ticks, nlines, nerrs, crashed, channel, text,
                    currentTimestamp, response, err, sent >>
    /\ UNCHANGED sanVars

\* the clock
Tick(d) ==
    /\ ~crashed
    /\ ticks < MaxTicks
    /\ now' = now + d
    /\ ticks' = ticks + 1
    /\ UNCHANGED << nlines, nerrs, crashed, contextMessagesPerChannel, pc, channel,
                    text, contextMessages, currentTimestamp, messages,
                    response, err, sent >>
    /\ UNCHANGED sanVars

(***************************************************************************)
(* The sanitizer on its own: applied to an input, then to its own result.  *)
(***************************************************************************)
SanInit ==
    /\ sanIn \in SanInputs
    /\ sanOnce = <<>>
    /\ sanTwice = <<>>
    /\ sanPc = "input"

SanitizeOnce ==
    /\ sanPc = "input"
    /\ sanOnce' = sanitizeResponse(sanIn)
    /\ sanPc' = "once"
    /\ UNCHANGED << sanIn, sanTwice >>
    /\ UNCHANGED ctxVars

SanitizeTwice ==
    /\ sanPc = "once"
    /\ sanTwice' = sanitizeResponse(sanOnce)
    /\ sanPc' = "twice"
    /\ UNCHANGED << sanIn, sanOnce >>
    /\ UNCHANGED ctxVars

(***************************************************************************)
(* The specifications.                                                     *)
(***************************************************************************)
Step(W, C, L, R, E, maxLines, maxErrs) ==
    \/ \E w \in W, c \in C, line \in L :
           nlines < maxLines /\ HandlePrivMsg(w, c, line)
    \/ \E w \in W : Get(w)
    \/ \E w \in W : Expire(w)
    \/ \E w \in W : AppendStore(w)
    \/ \E w \in W, e \in E : nerrs < maxErrs /\ CreateMessagesErr(w, e)
    \/ \E w \in W, raw \in R : CreateMessagesOK(w, raw)
    \/ \E w \in W : nerrs < maxErrs /\ CreateMessagesNoContent(w)
    \/ \E w \in W : Reply(w)

Advance == \E d \in TickSteps : Tick(d)

MapRace == \E w, v \in Workers : ConcurrentMapAccess(w, v)

MapInsertRace == \E w, v \in Workers : ConcurrentMapInsert(w, v)

Next ==
    \/ Step(Workers, Channels, Lines, RawResponses, Errors, MaxLines, MaxLines)
    \/ MapRace
    \/ MapInsertRace
    \/ Advance

Spec == Init /\ [][Next]_vars

TextNext ==
    \/ Step(Workers, TextChannels, TextLines, TextRawResponses, TextErrors,
            MaxTextLines, MaxTextLines)
    \/ MapRace

TextSpec == Init /\ [][TextNext]_vars

LongNext ==
    Step(LongWorkers, LongChannels, LongLines, RawResponses, Errors,
         MaxLongLines, MaxLongErrs)

LongSpec == Init /\ [][LongNext]_vars

SanNext == SanitizeOnce \/ SanitizeTwice

SanStart == CtxInit /\ SanInit

SanSpec == SanStart /\ [][SanNext]_vars

(***************************************************************************)
(* Properties.                                                             *)
(***************************************************************************)
Stored(c) == Lookup(contextMessagesPerChannel, c)
Range(seq) == {seq[i] : i \in 1..Len(seq)}
Expired(m, cur) == cur - m.Timestamp > expirySeconds

\* worker w has read its channel's slice and has not yet returned
InRespond(w) == pc[w] \in {"expire", "append", "call"}

\* the steps of worker w's call: storing, and returning to the handler
Stores(w) == pc[w] = "append" /\ pc'[w] = "call"
Returns(w) == pc[w] = "call" /\ pc'[w] = "reply"

\* C1: per-channel mutual exclusion: no two calls of respond for the same
\* channel are at once between reading the channel's slice and returning.
C1_MutualExclusion ==
    \A w1, w2 \in Workers :
        (w1 # w2 /\ InRespond(w1) /\ InRespond(w2)) => channel[w1] # channel[w2]

\* C2: trim invariant: the slice stored for a channel never holds more than
\* maxContextMessages messages, whatever calls succeeded or failed.
C2_TrimInvariant ==
    \A c \in DOMAIN contextMessagesPerChannel :
        Len(contextMessagesPerChannel[c]) <= maxContextMessages

\* a call has returned after its trim: line maxContextMessages + 1 of a
\* channel whose lines all were kept leaves two fewer
C2_Witness ==
    \E w \in Workers :
        /\ pc[w] = "reply"
        /\ nlines = maxContextMessages + 1
        /\ Len(Stored(channel[w])) = maxContextMessages - 1

\* C3: expiry: when a call returns, the channel's stored slice holds no
\* message that was older than the expiry window when the call read the
\* clock, and the payload the call built held none either.
C3_Expiry ==
    [][\A w \in Workers :
          /\ Returns(w) =>
                 \A m \in Range(Stored(channel[w]))' :
                     ~Expired(m, currentTimestamp[w])
          /\ Stores(w) =>
                 /\ \A m \in Range(contextMessages'[w]) :
                        ~Expired(m, currentTimestamp[w])
                 /\ messages'[w] = Prepare(contextMessages'[w])
      ]_vars

\* what each call itself stores holds no expired message (the loop of
\* lines 183-189 is right; C3 fails by a later store of a call that read
\* the clock earlier)
ExpiryAtStore ==
    [][\A w \in Workers :
          Stores(w) =>
              \A m \in Range(Stored(channel[w]))' :
                  ~Expired(m, currentTimestamp[w])
      ]_vars

\* C4: pairing: a response, once set, stays as it is.  A call's completion
\* leaves every answered message of every slice unchanged, and a message is
\* answered in the next state only if it was already, or if it is the
\* message of the call that completes in this step.
Kept(seq, seq2) ==
    /\ Len(seq2) = Len(seq)
    /\ \A i \in 1..Len(seq) : seq[i].Response # <<>> => seq2[i] = seq[i]

AllMessages ==
    UNION {Range(contextMessagesPerChannel[c]) :
               c \in DOMAIN contextMessagesPerChannel}
    \cup UNION {Range(contextMessages[w]) : w \in Workers}

C4_Pairing ==
    [][/\ \A w \in Workers :
             (pc[w] = "call" /\ pc'[w] # "call") =>
                 /\ \A c \in DOMAIN contextMessagesPerChannel :
                        Kept(contextMessagesPerChannel[c],
                             contextMessagesPerChannel'[c])
                 /\ \A v \in Workers \ {w} :
                        Kept(contextMessages[v], contextMessages'[v])
       /\ \A m \in AllMessages' :
             m.Response # <<>> =>
                 \/ m \in AllMessages
                 \/ \E w \in Workers, q \in AllMessages :
                        /\ Returns(w)
                        /\ q.ref = w
                        /\ q.Response = <<>>
                        /\ m = [q EXCEPT !.Response = m.Response, !.ref = 0]
      ]_vars

\* two answered messages in one slice: a later call completed while an
\* answered message was there
C4_Witness ==
    \E c \in DOMAIN contextMessagesPerChannel :
        \E i, j \in 1..Len(contextMessagesPerChannel[c]) :
            /\ i < j
            /\ contextMessagesPerChannel[c][i].Response # <<>>
            /\ contextMessagesPerChannel[c][j].Response # <<>>

\* C5: failure: when CreateMessages fails, respond returns the error and no
\* text; the call's user message is in the channel's stored slice, without
\* a response; the other stored messages are as they were; and the slice
\* holds at most maxContextMessages messages.
C5_Failure ==
    [][\A w \in Workers :
          (Returns(w) /\ nerrs' = nerrs + 1) =>
              LET before == Stored(channel[w])
                  after  == Stored(channel[w])'
              IN  /\ err'[w] # <<>>
                  /\ response'[w] = <<>>
                  /\ Len(after) = Len(before)
                  /\ \E i \in 1..Len(before) :
                         /\ before[i].ref = w
                         /\ after[i].Response = <<>>
                  /\ \A i \in 1..Len(before) :
                         before[i].ref # w => after[i] = before[i]
                  /\ Len(after) <= maxContextMessages
      ]_vars

\* C6: isolation: calls for distinct channels neither see nor spoil each
\* other's slices.  In every step, a channel for which no call moves keeps
\* its stored slice; a call that does not move, for another channel than
\* those of the calls that move, keeps its local slice; a call that reads
\* reads its own channel's stored slice; and a call that stores leaves its
\* own slice, and nothing else, stored under its own channel.
Moves(w) == pc'[w] # pc[w]
ChannelOf(w) == IF channel[w] # NoChannel THEN channel[w] ELSE channel'[w]

C6_Isolation ==
    [][/\ \A b \in Channels :
             (\A w \in Workers : Moves(w) => ChannelOf(w) # b) =>
                 /\ Stored(b)' = Stored(b)
                 /\ b \in DOMAIN contextMessagesPerChannel'
                        <=> b \in DOMAIN contextMessagesPerChannel
       /\ \A v \in Workers :
             (~Moves(v) /\ \A w \in Workers : Moves(w) => ChannelOf(w) # channel[v])
                 => contextMessages'[v] = contextMessages[v]
       /\ \A w \in Workers :
             /\ (Moves(w) /\ pc[w] = "get") =>
                    contextMessages'[w] = Stored(channel[w])
             /\ Stores(w) =>
                    /\ channel[w] \in DOMAIN contextMessagesPerChannel'
                    /\ Stored(channel[w])' = contextMessages'[w]
      ]_vars

\* two calls in flight for two channels, each with its message stored
C6_Witness ==
    \E w1, w2 \in Workers :
        /\ pc[w1] = "call" /\ pc[w2] = "call"
        /\ channel[w1] # channel[w2]
        /\ Stored(channel[w1]) # <<>>
        /\ Stored(channel[w2]) # <<>>
        /\ Stored(channel[w1]) # Stored(channel[w2])

\* C7: sanitizeResponse is idempotent: applied to its own result it returns
\* that result.
C7_Idempotent == sanPc = "twice" => sanTwice = sanOnce

\* the number of runes of a string: its bytes less the second bytes of the
\* two-byte runes
NumRunes(s) ==
    Cardinality({i \in 1..Len(s) :
                    ~(i > 1 /\ s[i] \in contBytes /\ s[i - 1] \in leadBytes)})

WithinLimit(s) ==
    Len(s) <= maxIRCMessageLength /\ NumRunes(s) <= maxIRCMessageLength

SanitizedWithinLimit ==
    \A x \in SanInputs \cup TextRawResponses \cup TextErrors :
        WithinLimit(sanitizeResponse(x))

\* C8: length bound: sanitizeResponse returns at most maxIRCMessageLength
\* bytes (and so characters), and so does every text the handler hands to
\* conn.Privmsg, the reply and the failure message alike.
C8_LengthBound ==
    /\ SanitizedWithinLimit
    /\ \A i \in 1..Len(sent) : WithinLimit(sent[i].text)
    /\ \A w \in Workers :
           response[w] # <<>> => WithinLimit(response[w][1])

\* a failure message cut to the limit has been sent
C8_Witness ==
    /\ sent # <<>>
    /\ Len(sent[1].text) = maxIRCMessageLength
    /\ HasPrefix(sent[1].text, brainfartPrefix)

\* C9: serialization: the payload a call builds lists the messages of the
\* slice it retained, in order: message i at the place i plus the number of
\* answered messages before it, as a user entry with its content, followed
\* by an assistant entry with the response's content exactly when it is
\* answered; and nothing else.
Answered(seq) == {i \in 1..Len(seq) : seq[i].Response # <<>>}
Place(seq, i) == i + Cardinality({j \in Answered(seq) : j < i})

Serializes(payload, seq) ==
    /\ Len(payload) = Len(seq) + Cardinality(Answered(seq))
    /\ \A i \in 1..Len(seq) :
           /\ payload[Place(seq, i)] = [Role |-> "user", Text |-> seq[i].Content]
           /\ i \in Answered(seq) =>
                  payload[Place(seq, i) + 1] =
                      [Role |-> "assistant", Text |-> seq[i].Response[1].Content]

C9_Serialization ==
    [][\A w \in Workers :
          Stores(w) => Serializes(messages'[w], contextMessages'[w])
      ]_vars

\* a request in flight whose payload holds an answered message, an
\* unanswered one and the new one
C9_Witness ==
    \E w \in Workers :
        /\ pc[w] = "call"
        /\ Len(messages[w]) = 4
        /\ messages[w][2].Role = "assistant"
        /\ messages[w][3].Role = "user"
        /\ messages[w][4].Role = "user"

\* C10: trim step: with the new user message appended, a slice of more than
\* maxContextMessages messages loses its first two and keeps the rest in
\* order, and a shorter one loses nothing; the result is what is stored.
C10_TrimStep ==
    [][\A w \in Workers :
          Stores(w) =>
              LET post == contextMessages'[w]
                  pre  == Append(contextMessages[w], post[Len(post)])
              IN  /\ post # <<>>
                  /\ post[Len(post)].ref = w
                  /\ post[Len(post)].Role = "user"
                  /\ Len(pre) > maxContextMessages =>
                         post = SubSeq(pre, 3, Len(pre))
                  /\ Len(pre) <= maxContextMessages => post = pre
                  /\ Stored(channel[w])' = post
      ]_vars

\* the trim has acted: the new message came to a full slice
C10_Witness ==
    \E w \in Workers :
        /\ pc[w] = "call"
        /\ nlines = maxContextMessages + 1
        /\ Len(contextMessages[w]) = maxContextMessages - 1
        /\ contextMessages[w][Len(contextMessages[w])].ref = w

\* the completion call of worker w comes back, in whatever way
Completes(w) == pc[w] = "call" /\ pc'[w] # "call"
\* the handler of worker w passes its conn.Privmsg
Sends(w) == pc[w] = "reply" /\ pc'[w] # "reply"

\* C11: one reply per addressed message: when the completion call comes
\* back the handler goes on to send, holding either a reply or an error;
\* what it then sends, to the channel the line came from, is that reply, or
\* the failure message made of the error, which is not empty; and nothing
\* is sent by any other step.
C11_OneReply ==
    [][/\ \A w \in Workers :
             Completes(w) =>
                 /\ pc'[w] = "reply"
                 /\ (err'[w] # <<>>) # (response'[w] # <<>>)
       /\ \A w \in Workers :
             Sends(w) =>
                 /\ Len(sent') = 1
                 /\ sent'[1].target = channel[w]
                 /\ err[w] = <<>> => sent'[1].text = response[w][1]
                 /\ err[w] # <<>> =>
                        /\ sent'[1].text # <<>>
                        /\ HasPrefix(sent'[1].text, TrimSpace(brainfartPrefix))
       /\ sent' # sent => \E w \in Workers : Sends(w)
      ]_vars

\* C12: completion failure: a completion call that ends in an error, or in
\* an answer without content, makes respond return an error to the handler,
\* the process alive, and leaves every message without a response that had
\* none.
Unanswered(seq) == {i \in 1..Len(seq) : seq[i].Response = <<>>}

C12_CompletionFailure ==
    [][\A w \in Workers :
          (Completes(w) /\ nerrs' = nerrs + 1) =>
              /\ pc'[w] = "reply"
              /\ err'[w] # <<>>
              /\ response'[w] = <<>>
              /\ ~crashed'
              /\ \A c \in DOMAIN contextMessagesPerChannel :
                     Unanswered(contextMessagesPerChannel'[c]) =
                         Unanswered(contextMessagesPerChannel[c])
      ]_vars

\* the reference: the pieces between the runs of white space, joined by
\* single spaces, and of that the first n characters
RuneStart(s, i) == ~(i > 1 /\ s[i] \in contBytes /\ s[i - 1] \in leadBytes)

FirstRunes(s, n) ==
    IF NumRunes(s) <= n THEN s
    ELSE LET p == CHOOSE q \in n..Len(s) :
                      /\ NumRunes(SubSeq(s, 1, q)) = n
                      /\ RuneStart(s, q + 1)
         IN  SubSeq(s, 1, p)

FirstBytes(s, n) == IF Len(s) <= n THEN s ELSE SubSeq(s, 1, n)

Collapsed(x) == Join(Fields(x), << " " >>)

\* C13: sanitizeResponse gives the reference result: the input's pieces
\* joined by single spaces, cut to its first maxIRCMessageLength characters.
C13_Reference ==
    sanPc \in {"once", "twice"} =>
        sanOnce = FirstRunes(Collapsed(sanIn), maxIRCMessageLength)

\* with bytes for characters the result is the reference's, and the two
\* examples come out as stated
ReferenceInBytes ==
    /\ sanPc \in {"once", "twice"} =>
           sanOnce = FirstBytes(Collapsed(sanIn), maxIRCMessageLength)
    /\ sanitizeResponse(RawShort) = << "a", " ", "b", " ", "c" >>
    /\ sanitizeResponse(Rep("w", 500)) = Rep("w", maxIRCMessageLength)

\* C14: the hint: the message a call appends is a user message whose
\* content is the handler's text followed by shortAnswerHint, once, and it
\* is the last entry of the payload; a call that finds nothing stored for
\* its channel leaves one message stored and one entry in the payload.
Last(seq) == seq[Len(seq)]

C15_NonBlocking ==
    \A w, v \in Workers :
        (/\ ~crashed
         /\ pc[w] = "call"
         /\ pc[v] \in {"get", "expire", "append", "call"}
         /\ channel[v] # channel[w])
        => /\ pc[v] = "get" => ENABLED Get(v)
           /\ pc[v] = "expire" => ENABLED Expire(v)
           /\ pc[v] = "append" => ENABLED AppendStore(v)
           /\ pc[v] = "call" =>
                  ENABLED (\E e \in Errors : CreateMessagesErr(v, e))

\* a call for one channel has come back with its answer attached while the
\* call for the other channel, begun before it, still waits
C15_Witness ==
    \E w, v \in Workers :
        /\ pc[w] = "call" /\ pc[v] = "reply"
        /\ channel[w] # channel[v]
        /\ response[v] # <<>>
        /\ Stored(channel[w]) # <<>>
        /\ Last(Stored(channel[w])).ref = w
        /\ Stored(channel[v]) # <<>>
        /\ Last(Stored(channel[v])).Response # <<>>
        /\ Last(Stored(channel[v])).Timestamp > Last(Stored(channel[w])).Timestamp

\* C16: attach: when respond returns a text, the user message the call
\* appended is in the channel's stored slice and its response is an
\* assistant message with that text.
C16_Attach ==
    [][\A w \in Workers :
          (Returns(w) /\ err'[w] = <<>>) =>
              LET before == Stored(channel[w])
                  after  == Stored(channel[w])'
              IN  \E i \in 1..Len(before) :
                      /\ before[i].ref = w
                      /\ Len(after) = Len(before)
                      /\ after[i].Response # <<>>
                      /\ after[i].Response[1].Role = "assistant"
                      /\ after[i].Response[1].Content = response'[w][1]
                      /\ after[i].Content = before[i].Content
      ]_vars

\* C17: the expiry pass removes the expired messages and nothing else: what
\* it leaves is the messages of the slice that are not older than the
\* window at the call's clock reading, each as it was, response included,
\* in the order they had.
Fresh(w, seq) ==
    SelectSeq(seq, LAMBDA m : ~Expired(m, currentTimestamp'[w]))

C18_SingleInvocation ==
    [][/\ \A w \in Workers :
             (pc'[w] = "call" /\ pc[w] # "call") =>
                 /\ pc[w] = "append"
                 /\ Len(contextMessages'[w]) <= maxContextMessages
                 /\ Last(contextMessages'[w]).ref = w
                 /\ messages'[w] = Prepare(contextMessages'[w])
       /\ \A w \in Workers :
             Completes(w) => pc'[w] \in {"reply", "idle", "panic"}
       /\ nerrs' # nerrs =>
             \E w \in Workers :
                 /\ Completes(w)
                 /\ pc'[w] = "reply" => (err'[w] # <<>> /\ messages'[w] = <<>>)
       /\ \A w \in Workers :
             pc[w] \in {"reply", "panic"} => pc'[w] # "call"
      ]_vars

\* a call has failed and gone back to the handler with the error, the
\* user message stored and the request gone
C18_Witness ==
    \E w \in Workers :
        /\ pc[w] = "reply"
        /\ err[w] # <<>>
        /\ messages[w] = <<>>
        /\ nerrs = 1
        /\ Stored(channel[w]) # <<>>
        /\ Last(Stored(channel[w])).Response = <<>>

\* C19: a line that does not start with the nick and a colon is only
\* logged: the handler calls nothing, so no worker leaves its place, the
\* map and every slice stay as they are, no request is built and nothing is
\* sent.
StartsWithNickColon(line) ==
    /\ Len(line) > Len(Nick)
    /\ \A i \in 1..Len(Nick) : line[i] = Nick[i]
    /\ line[Len(Nick) + 1] = ":"

C19_Unaddressed ==
    [][\A w \in Workers, c \in TextChannels, line \in TextLines :
          (~StartsWithNickColon(line) /\ HandlePrivMsg(w, c, line)) =>
              /\ nlines' = nlines + 1
              /\ UNCHANGED << now, ticks, nerrs, crashed,
                              contextMessagesPerChannel, pc, channel, text,
                              contextMessages, currentTimestamp, messages,
                              response, err, sent >>
      ]_vars

\* lines have come, none was addressed: nothing has happened
C19_Witness ==
    /\ nlines = MaxTextLines
    /\ \A w \in Workers : pc[w] = "idle" /\ messages[w] = <<>>
    /\ DOMAIN contextMessagesPerChannel = {}
    /\ sent = <<>>

\* C20: alternation: with the calls of a channel one at a time (LongSpec),
\* a call whose retained messages are all answered builds a payload of odd
\* length that reads user, assistant, user, ... and ends with the new user
\* message; and a call that retains a message left unanswered by a failed
\* call builds a payload with two user entries in a row.
Alternates(payload) ==
    /\ Len(payload) % 2 = 1
    /\ \A k \in 1..Len(payload) :
           payload[k].Role = IF k % 2 = 1 THEN "user" ELSE "assistant"

TwoUsersInARow(payload) ==
    \E k \in 1..(Len(payload) - 1) :
        payload[k].Role = "user" /\ payload[k + 1].Role = "user"

C20_Alternation ==
    [][\A w \in LongWorkers :
          Stores(w) =>
              LET post == contextMessages'[w]
                  pay  == messages'[w]
                  open == {i \in 1..(Len(post) - 1) : post[i].Response = <<>>}
              IN  /\ open = {} =>
                         /\ Alternates(pay)
                         /\ Last(pay) = [Role |-> "user",
                                         Text |-> text[w] \o shortAnswerHint]
                  /\ open # {} => TwoUsersInARow(pay)
      ]_vars

\* after a failed call whose message the trim has dropped, a payload of the
\* full retained context alternates
C20_Witness ==
    \E w \in LongWorkers :
        /\ pc[w] = "call"
        /\ nerrs = 1
        /\ nlines = maxContextMessages + 1
        /\ Len(messages[w]) = 2 * (maxContextMessages - 2) + 1
        /\ Alternates(messages[w])

\* a payload with two user entries in a row, after a failed call
C20_Degraded ==
    \E w \in LongWorkers :
        /\ pc[w] = "call"
        /\ nerrs = 1
        /\ TwoUsersInARow(messages[w])

====
